---- MODULE Spec2Model ----
(***************************************************************************)
(* Model of the football statistics pipeline:                              *)
(*   - schema_generator.py: column name sanitizer, type inferencer and     *)
(*     schema builder;                                                     *)
(*   - cloud_run_main_latest.py / cloud_run_scraper_latest.py: the Pub/Sub *)
(*     handler hello_pubsub with its storage upload, table load and        *)
(*     aggregation query.                                                  *)
(* A text string is a sequence of one-character strings.                   *)
(***************************************************************************)
EXTENDS Integers, Sequences, FiniteSets, TLC

VARIABLES
    name,               \* sanitizer: the column header given
    once,               \* sanitizer: outcome of sanitize(name)
    twice,              \* sanitizer: outcome of sanitize(sanitize(name))
    spc,                \* sanitizer: position of the driver
    pandas_dtype,       \* inferencer: declared storage kind of the column
    column_series,      \* inferencer: the column's values
    conv_raises,        \* inferencer: the datetime conversion raises
    inferred,           \* inferencer: the (type, mode) returned
    ipc,                \* inferencer: position of the driver
    csv,                \* builder: the file at csv_file_path
    df,                 \* builder: the dataframe read
    col,                \* builder: index of the next column of the loop
    bq_schema_fields,   \* builder: the list being built
    returned,           \* builder: the value returned
    bpc,                \* builder: position in infer_bigquery_schema_from_csv
    clock,              \* pipeline: datetime.now(), in whole seconds
    pc,                 \* pipeline: position of each hello_pubsub invocation
    fn,                 \* pipeline: the deployed function each invocation runs
    pubsub_message,     \* pipeline: the decoded message of each invocation
    dummy_data,         \* pipeline: the record each invocation generated
    unique_id,          \* pipeline: the timestamp name each invocation computed
    hist,               \* pipeline: the steps each invocation ran, with outcome
    localfs,            \* pipeline: local files of each deployed function
    bucket,             \* pipeline: objects of the bucket frf-datacamp
    upload_table,       \* pipeline: rows of main_dataset.auto_upload_table
    filtered_table      \* pipeline: rows of main_dataset.auto_filtered_latest

sanVars == <<name, once, twice, spc>>
infVars == <<pandas_dtype, column_series, conv_raises, inferred, ipc>>
bldVars == <<csv, df, col, bq_schema_fields, returned, bpc>>
pipVars == <<clock, pc, fn, pubsub_message, dummy_data, unique_id, hist, localfs,
             bucket, upload_table, filtered_table>>
vars == <<sanVars, infVars, bldVars, pipVars>>

\* ------------------------------------------------------------------ bounds

\* Longest tail of a header drawn for the sanitizer.
MaxLen == 3
\* BigQuery's longest column name: the slice sanitized[:128].
MaxNameLen == 128

\* ------------------------------------------------------------- characters

AsciiLetters == {"A", "b"}
AsciiDigits == {"1"}
\* A letter outside ASCII (e with acute accent): str.isalnum and str.isalpha
\* are Unicode-aware and accept it.
OtherLetters == {"U+00E9"}
Symbols == {"-", " "}
Alphabet == AsciiLetters \cup AsciiDigits \cup OtherLetters \cup Symbols \cup {"_"}

isalpha(c) == c \in AsciiLetters \cup OtherLetters
isalnum(c) == isalpha(c) \/ c \in AsciiDigits

Min(a, b) == IF a <= b THEN a ELSE b

\* s[:n]
Slice(s, n) == SubSeq(s, 1, Min(n, Len(s)))

\* s.split('_'): the segments between underscores, empty segments included.
RECURSIVE Split(_)
Split(s) ==
    IF \A i \in 1..Len(s) : s[i] # "_"
    THEN <<s>>
    ELSE LET i == CHOOSE k \in 1..Len(s) :
                      s[k] = "_" /\ \A j \in 1..(k - 1) : s[j] # "_"
         IN <<SubSeq(s, 1, i - 1)>> \o Split(SubSeq(s, i + 1, Len(s)))

\* filter(None, segments): the non-empty segments.
NonEmpty(seg) == seg # <<>>
FilterNone(segs) == SelectSeq(segs, NonEmpty)

\* '_'.join(segments)
RECURSIVE Join(_)
Join(segs) ==
    IF segs = <<>> THEN <<>>
    ELSE IF Len(segs) = 1 THEN segs[1]
    ELSE segs[1] \o <<"_">> \o Join(Tail(segs))

\* The generator expression: every character that is neither alphanumeric
\* nor '_' becomes '_'.
ReplaceNonAlnum(s) ==
    [i \in 1..Len(s) |-> IF isalnum(s[i]) \/ s[i] = "_" THEN s[i] ELSE "_"]

\* Ensure it starts with a letter or underscore (s is not empty).
PrependUnderscore(s) ==
    IF ~isalpha(s[1]) /\ ~(s[1] = "_") THEN <<"_">> \o s ELSE s

\* sanitize_bigquery_column_name(name).  sanitized[0] raises IndexError on
\* the empty string: the outcome is then [raised |-> TRUE].
sanitize_bigquery_column_name(n) ==
    LET sanitized == ReplaceNonAlnum(n)
    IN  IF sanitized = <<>>
        THEN [raised |-> TRUE, value |-> <<>>]
        ELSE [raised |-> FALSE,
              value |-> Slice(Join(FilterNone(Split(PrependUnderscore(sanitized)))),
                              MaxNameLen)]

\* ---------------------------------------------------------- sanitizer spec

Repeat(c, n) == [k \in 1..n |-> c]

Strings(S, lo, hi) == UNION {[1..n -> S] : n \in lo..hi}

\* Headers: short ones, and long ones (a run of letters, then a short tail)
\* whose length is around the 128-character limit.  A header read by pandas
\* is never empty (an empty header cell is named "Unnamed: <n>").
PadLens == {0, MaxNameLen - 2, MaxNameLen - 1}
Headers == {Repeat("A", k) \o t : k \in PadLens, t \in Strings(Alphabet, 1, MaxLen)}

NotRun == [raised |-> FALSE, value |-> <<"(not run)">>]

SanIdle ==
    /\ name = <<>>
    /\ once = NotRun
    /\ twice = NotRun
    /\ spc = "off"

InitSanitize ==
    /\ name \in Headers
    /\ once = NotRun
    /\ twice = NotRun
    /\ spc = "start"

SanitizeOnce ==
    /\ spc = "start"
    /\ once' = sanitize_bigquery_column_name(name)
    /\ spc' = "once"
    /\ UNCHANGED <<name, twice>>

SanitizeTwice ==
    /\ spc = "once"
    /\ ~once.raised
    /\ twice' = sanitize_bigquery_column_name(once.value)
    /\ spc' = "twice"
    /\ UNCHANGED <<name, once>>

\* --------------------------------------------------------- type inferencer

\* Longest column drawn for the inferencer.
MaxRows == 3

\* An absent value (NaN / None) of a column.
NaN == "NaN"
\* A value of a column that is not text (a number, a boolean, a datetime).
NonTextCells == {"value"}
\* The text values drawn: one that is no date, one date without a time, and
\* date-times at midnight and at two other times of day.
TextCells == {"hello", "2024-01-01", "2024-01-02 00:00:00",
              "2024-01-01 10:30:00", "2024-01-02 10:30:00", "2024-01-02 11:45:00"}

Midnight == "00:00:00"
NaT == [nat |-> TRUE, date |-> "NaT", time |-> "NaT"]
Timestamp(d, t) == [nat |-> FALSE, date |-> d, time |-> t]

\* pd.to_datetime(value, errors='coerce') of one text value: the parsed
\* date-time, or NaT for a value that does not parse.
to_datetime(v) ==
    CASE v = "2024-01-01"          -> Timestamp("2024-01-01", Midnight)
      [] v = "2024-01-02 00:00:00" -> Timestamp("2024-01-02", Midnight)
      [] v = "2024-01-01 10:30:00" -> Timestamp("2024-01-01", "10:30:00")
      [] v = "2024-01-02 10:30:00" -> Timestamp("2024-01-02", "10:30:00")
      [] v = "2024-01-02 11:45:00" -> Timestamp("2024-01-02", "11:45:00")
      [] OTHER                     -> NaT

\* The pandas dtypes drawn, and the pd.api.types predicates over them.
IntegerDTypes == {"int64", "int32", "uint64"}
FloatDTypes == {"float64"}
BoolDTypes == {"bool"}
DatetimeDTypes == {"datetime64[ns]"}
StringDTypes == {"object", "string"}
OtherDTypes == {"timedelta64[ns]", "category"}
DTypes == IntegerDTypes \cup FloatDTypes \cup BoolDTypes \cup DatetimeDTypes
              \cup StringDTypes \cup OtherDTypes

is_integer_dtype(d) == d \in IntegerDTypes
is_float_dtype(d) == d \in FloatDTypes
is_bool_dtype(d) == d \in BoolDTypes
is_datetime64_any_dtype(d) == d \in DatetimeDTypes
is_string_dtype(d) == d \in StringDTypes

isnull(v) == v = NaN
notnull(v) == v # NaN
any_null(series) == \E i \in 1..Len(series) : isnull(series[i])
dropna(series) == SelectSeq(series, notnull)

\* temp_series.isnull().all(): true of the empty series.
all_nat(temp) == \A i \in 1..Len(temp) : temp[i].nat
\* A count of the distinct times of day that counts NaT as one more value
\* (nunique(dropna=False)).
nunique_time_with_nat(temp) ==
    Cardinality({temp[i].time : i \in 1..Len(temp)})

\* temp_series.dt.time.nunique(): distinct times of day, NaT not counted.
nunique_time(temp) ==
    Cardinality({temp[i].time : i \in {j \in 1..Len(temp) : ~temp[j].nat}})

\* The text branch: lines 43-55.
infer_text_type(series, raises) ==
    IF raises THEN "STRING"
    ELSE LET dropped == dropna(series)
             temp_series == [i \in 1..Len(dropped) |-> to_datetime(dropped[i])]
         IN  IF ~all_nat(temp_series)
             THEN IF nunique_time(temp_series) > 1 THEN "TIMESTAMP" ELSE "DATE"
             ELSE "STRING"

\* A mode that is REQUIRED for a column without absent values.
infer_mode_required(series) ==
    IF any_null(series) THEN "NULLABLE" ELSE "REQUIRED"

\* The mode: both branches of the null test assign NULLABLE.
infer_mode(series) ==
    IF any_null(series) THEN "NULLABLE" ELSE "NULLABLE"

\* infer_bigquery_type(pandas_dtype, column_series); raises says whether the
\* datetime conversion of the text branch raises an exception.
infer_bigquery_type(dtype, series, raises) ==
    LET bq_mode == infer_mode(series)
        bq_type ==
            IF is_integer_dtype(dtype)
            THEN IF dtype = "int64" THEN "INT64" ELSE "INT64"
            ELSE IF is_float_dtype(dtype) THEN "FLOAT64"
            ELSE IF is_bool_dtype(dtype) THEN "BOOL"
            ELSE IF is_datetime64_any_dtype(dtype) THEN "TIMESTAMP"
            ELSE IF is_string_dtype(dtype) \/ dtype = "object"
            THEN infer_text_type(series, raises)
            ELSE "STRING"
    IN  <<bq_type, bq_mode>>

\* --------------------------------------------------------- inferencer spec

CellsOf(dtype) ==
    IF dtype \in StringDTypes THEN TextCells \cup {NaN} ELSE NonTextCells \cup {NaN}

NotInferred == <<"(not run)", "(not run)">>

InfIdle ==
    /\ pandas_dtype = "object"
    /\ column_series = <<>>
    /\ conv_raises = FALSE
    /\ inferred = NotInferred
    /\ ipc = "off"

InitInfer ==
    /\ pandas_dtype \in DTypes
    /\ column_series \in Strings(CellsOf(pandas_dtype), 0, MaxRows)
    /\ conv_raises \in (IF pandas_dtype \in StringDTypes THEN BOOLEAN ELSE {FALSE})
    /\ inferred = NotInferred
    /\ ipc = "start"

Infer ==
    /\ ipc = "start"
    /\ inferred' = infer_bigquery_type(pandas_dtype, column_series, conv_raises)
    /\ ipc' = "done"
    /\ UNCHANGED <<pandas_dtype, column_series, conv_raises>>

\* ----------------------------------------------------------- schema builder

\* Most columns of a table drawn for the builder.
MaxCols == 2

\* The headers of the tables drawn: pairwise distinct, never empty.
TableHeaders == {<<"A">>, <<"A", "-", "b">>, <<"A", "_", "b">>, <<"A", " ", "b">>,
                 <<"A", "_", "_", "b">>, <<"1", "A">>, <<"-">>}

\* The columns read_csv yields under a header: a dtype among int64, float64,
\* bool and object, and the values.
ColumnSamples == {[dtype |-> "int64", series |-> <<"value">>],
                  [dtype |-> "float64", series |-> <<NaN>>],
                  [dtype |-> "bool", series |-> <<"value">>],
                  [dtype |-> "object", series |-> <<"hello">>],
                  [dtype |-> "object", series |-> <<"2024-01-01 10:30:00">>]}

Columns == {[column_name |-> h, dtype |-> c.dtype, series |-> c.series] :
                h \in TableHeaders, c \in ColumnSamples}

\* read_csv never yields two columns of one name (it renames duplicates).
Tables == {t \in UNION {[1..n -> Columns] : n \in 1..MaxCols} :
               \A i, j \in 1..Len(t) : i # j => t[i].column_name # t[j].column_name}

\* The file at csv_file_path: missing, unreadable (an empty or malformed
\* file), or a table.
CsvFiles == {[kind |-> "missing", columns |-> <<>>],
             [kind |-> "unreadable", columns |-> <<>>]}
                \cup {[kind |-> "table", columns |-> t] : t \in Tables}

\* The dictionary appended for one column (lines 105-110).
field_descriptor(column_name, dtype, series, raises) ==
    LET t == infer_bigquery_type(dtype, series, raises)
    IN  [name |-> sanitize_bigquery_column_name(column_name).value,
         type |-> t[1],
         mode |-> t[2],
         description |-> <<"Inferred from CSV column '">> \o column_name \o <<"'">>]

\* A builder that leaves out a column whose sanitized name is empty.
append_field_skip_blank(fields, c, raises) ==
    IF sanitize_bigquery_column_name(c.column_name).value = <<>>
    THEN fields
    ELSE Append(fields, field_descriptor(c.column_name, c.dtype, c.series, raises))

\* bq_schema_fields.append({...})
append_field(fields, c, raises) ==
    Append(fields, field_descriptor(c.column_name, c.dtype, c.series, raises))

BldIdle ==
    /\ csv = [kind |-> "missing", columns |-> <<>>]
    /\ df = <<>>
    /\ col = 0
    /\ bq_schema_fields = <<>>
    /\ returned = <<>>
    /\ bpc = "off"

InitSchema ==
    /\ csv \in CsvFiles
    /\ df = <<>>
    /\ col = 0
    /\ bq_schema_fields = <<>>
    /\ returned = <<>>
    /\ bpc = "start"

\* pd.read_csv raises FileNotFoundError: return [].
ReadCsvNotFound ==
    /\ bpc = "start"
    /\ csv.kind = "missing"
    /\ returned' = <<>>
    /\ bpc' = "returned"
    /\ UNCHANGED <<csv, df, col, bq_schema_fields>>

\* pd.read_csv raises another exception: return [].
ReadCsvError ==
    /\ bpc = "start"
    /\ csv.kind = "unreadable"
    /\ returned' = <<>>
    /\ bpc' = "returned"
    /\ UNCHANGED <<csv, df, col, bq_schema_fields>>

ReadCsvOk ==
    /\ bpc = "start"
    /\ csv.kind = "table"
    /\ df' = csv.columns
    /\ bq_schema_fields' = <<>>
    /\ col' = 1
    /\ bpc' = "loop"
    /\ UNCHANGED <<csv, returned>>

\* One iteration of the loop over df.dtypes.items().  The loop is outside the
\* try: an exception of the sanitizer would leave the function.
LoopBody ==
    /\ bpc = "loop"
    /\ col <= Len(df)
    /\ IF sanitize_bigquery_column_name(df[col].column_name).raised
       THEN /\ bpc' = "raised"
            /\ UNCHANGED <<col, bq_schema_fields>>
       ELSE /\ \E raises \in (IF df[col].dtype \in StringDTypes THEN BOOLEAN ELSE {FALSE}) :
                   bq_schema_fields' = append_field(bq_schema_fields, df[col], raises)
            /\ col' = col + 1
            /\ bpc' = "loop"
    /\ UNCHANGED <<csv, df, returned>>

ReturnSchema ==
    /\ bpc = "loop"
    /\ col > Len(df)
    /\ returned' = bq_schema_fields
    /\ bpc' = "returned"
    /\ UNCHANGED <<csv, df, col, bq_schema_fields>>

\* ----------------------------------------------------------------- pipeline

\* Concurrent or successive invocations of hello_pubsub.
NumInvocations == 2
\* Last second the clock reaches.
MaxTime == 1

Invocations == 1..NumInvocations
\* cloud_run_main_latest.py and cloud_run_scraper_latest.py: both write to the
\* same bucket and the same table.
Functions == {"main", "scraper"}

\* base64.b64decode(data).decode('utf-8') of the event data drawn.  "/w==" is
\* the byte 0xFF, which is no UTF-8 text: decoding raises.
Events == {"am9iX3N0YXJ0ZWQ=", "am9iX2ZpbmlzaGVk", "/w=="}
b64decode_utf8(data) ==
    CASE data = "am9iX3N0YXJ0ZWQ=" -> [raised |-> FALSE, value |-> "job_started"]
      [] data = "am9iX2ZpbmlzaGVk" -> [raised |-> FALSE, value |-> "job_finished"]
      [] OTHER                     -> [raised |-> TRUE, value |-> ""]

\* The draws of random.randint(1, 12), (1, 20), (1, 5) and (2, 6) that are
\* followed: every draw at its lowest value, and every draw at its highest.
RandomDraws == {<<1, 1, 1, 2>>, <<12, 20, 5, 6>>}

\* The dummy_data a function may generate.
DummyData(f) ==
    IF f = "main"
    THEN {[id |-> 1, name |-> "Dinamo", league |-> "Liga 1", month |-> r[1],
           statistics |-> [matches_played |-> 30, wins |-> r[2], draws |-> r[3],
                           losses |-> r[4], goals_for |-> 60, goals_against |-> 30]] :
              r \in RandomDraws}
    ELSE {[id |-> 1, name |-> "Dinamo", league |-> "Liga 1", season |-> 2023,
           statistics |-> [matches_played |-> 30, wins |-> 20, draws |-> 5,
                           losses |-> 5, goals_for |-> 60, goals_against |-> 30]]}

\* f"dinamo_statistics_2023_{now:%Y%m%d_%H%M%S}": one name per second.
UniqueId(now) == <<"dinamo_statistics_2023_", now>>
FileName(uid) == uid \o <<"_processed.jsonl">>
BlobName(file) == <<"auto-scraped-files/">> \o file
\* The object the URI gs://frf-datacamp/auto-scraped-files/{filename} names.
UriObject(file) == <<"auto-scraped-files/">> \o file

\* json.dumps(dummy_data) + '\n': a file of one line.
JsonLines(data) == <<[json |-> data]>>
\* The rows a NEWLINE_DELIMITED_JSON load reads from a file.
ParseRows(lines) == [k \in 1..Len(lines) |-> lines[k].json]

\* if_generation_match = 0: the upload succeeds only if the object has no
\* live generation.
no_precondition(bkt, blob) == TRUE
generation_match_precondition(bkt, blob) == blob \notin DOMAIN bkt

\* blob.upload_from_filename(source_file_name, if_generation_match=0), when it
\* succeeds.
upload_blob(bkt, lines, blob) == (blob :> lines) @@ bkt

\* A load that replaces the table (WRITE_TRUNCATE).
upload_bigquery_truncate(table, rows) == rows
\* load_table_from_uri with WRITE_APPEND, when the job succeeds.
upload_bigquery(table, rows) == table \o rows

RECURSIVE SumOf(_, _, _)
SumOf(table, team, field) ==
    IF table = <<>> THEN 0
    ELSE (IF table[1].name = team THEN table[1].statistics[field] ELSE 0)
             + SumOf(Tail(table), team, field)

\* The aggregation query, written with WRITE_TRUNCATE: one row per team name,
\* an average kept as (sum, count).
data_transformation(table) ==
    {[team_name |-> t,
      rows |-> Cardinality({k \in 1..Len(table) : table[k].name = t}),
      sum_wins |-> SumOf(table, t, "wins"),
      sum_draws |-> SumOf(table, t, "draws"),
      sum_losses |-> SumOf(table, t, "losses")] :
         t \in {table[k].name : k \in 1..Len(table)}}

\* The branch on the decoded message.
on_message(message) == IF message = "job_started" THEN "write" ELSE "done"

\* A handler that catches the failure of a step and goes on with the next.
after_step_continue(f, step, ok) ==
    CASE step = "write" -> "upload"
      [] step = "upload" -> "load"
      [] step = "load" -> IF f = "main" THEN "transform" ELSE "done"
      [] OTHER -> "done"

\* The position after a step of the try block: the next statement, or the
\* except clause (which ends the handler) when the step raised.
after_step(f, step, ok) ==
    IF ~ok THEN "done"
    ELSE CASE step = "write" -> "upload"
           [] step = "upload" -> "load"
           [] step = "load" -> IF f = "main" THEN "transform" ELSE "done"
           [] OTHER -> "done"

Event(step, ok, arg) == [step |-> step, ok |-> ok, arg |-> arg]

PipIdle ==
    /\ clock = 0
    /\ pc = [i \in Invocations |-> "off"]
    /\ fn = [i \in Invocations |-> "main"]
    /\ pubsub_message = [i \in Invocations |-> ""]
    /\ dummy_data = [i \in Invocations |-> <<>>]
    /\ unique_id = [i \in Invocations |-> <<>>]
    /\ hist = [i \in Invocations |-> <<>>]
    /\ localfs = [f \in Functions |-> <<>>]
    /\ bucket = <<>>
    /\ upload_table = <<>>
    /\ filtered_table = {}

InitPipeline ==
    /\ clock = 0
    /\ pc = [i \in Invocations |-> "idle"]
    /\ fn = [i \in Invocations |-> "main"]
    /\ pubsub_message = [i \in Invocations |-> ""]
    /\ dummy_data = [i \in Invocations |-> <<>>]
    /\ unique_id = [i \in Invocations |-> <<>>]
    /\ hist = [i \in Invocations |-> <<>>]
    /\ localfs = [f \in Functions |-> <<>>]
    /\ bucket = <<>>
    /\ upload_table = <<>>
    /\ filtered_table = {}

\* A second passes.
Tick ==
    /\ clock < MaxTime
    /\ clock' = clock + 1
    /\ UNCHANGED <<pc, fn, pubsub_message, dummy_data, unique_id, hist, localfs,
                   bucket, upload_table, filtered_table>>

\* hello_pubsub up to the test of the message (lines 81-105): decode, draw the
\* data, compute the name.  A decoding error is outside the try block.
Receive(i) ==
    /\ pc[i] = "idle"
    /\ \E f \in Functions, data \in Events :
         LET decoded == b64decode_utf8(data)
         IN  /\ fn' = [fn EXCEPT ![i] = f]
             /\ IF decoded.raised
                THEN /\ pc' = [pc EXCEPT ![i] = "raised"]
                     /\ UNCHANGED <<pubsub_message, dummy_data, unique_id>>
                ELSE /\ pubsub_message' = [pubsub_message EXCEPT ![i] = decoded.value]
                     /\ \E d \in DummyData(f) :
                            dummy_data' = [dummy_data EXCEPT ![i] = d]
                     /\ unique_id' = [unique_id EXCEPT ![i] = UniqueId(clock)]
                     /\ pc' = [pc EXCEPT ![i] = on_message(decoded.value)]
    /\ UNCHANGED <<clock, hist, localfs, bucket, upload_table, filtered_table>>

\* open(f'{unique_id}_processed.jsonl', 'w') and the write: the file is
\* created or replaced.
WriteOk(i) ==
    /\ pc[i] = "write"
    /\ LET lines == JsonLines(dummy_data[i])
       IN  /\ localfs' = [localfs EXCEPT
                  ![fn[i]] = (FileName(unique_id[i]) :> lines) @@ localfs[fn[i]]]
           /\ hist' = [hist EXCEPT ![i] = Append(@, Event("write", TRUE, lines))]
    /\ pc' = [pc EXCEPT ![i] = after_step(fn[i], "write", TRUE)]
    /\ UNCHANGED <<clock, fn, pubsub_message, dummy_data, unique_id, bucket,
                   upload_table, filtered_table>>

WriteFail(i) ==
    /\ pc[i] = "write"
    /\ hist' = [hist EXCEPT ![i] = Append(@, Event("write", FALSE, <<>>))]
    /\ pc' = [pc EXCEPT ![i] = after_step(fn[i], "write", FALSE)]
    /\ UNCHANGED <<clock, fn, pubsub_message, dummy_data, unique_id, localfs, bucket,
                   upload_table, filtered_table>>

\* upload_blob succeeds: the local file exists and the precondition holds.
UploadOk(i) ==
    /\ pc[i] = "upload"
    /\ FileName(unique_id[i]) \in DOMAIN localfs[fn[i]]
    /\ generation_match_precondition(bucket, BlobName(FileName(unique_id[i])))
    /\ LET lines == localfs[fn[i]][FileName(unique_id[i])]
       IN  /\ bucket' = upload_blob(bucket, lines, BlobName(FileName(unique_id[i])))
           /\ hist' = [hist EXCEPT ![i] = Append(@, Event("upload", TRUE, lines))]
    /\ pc' = [pc EXCEPT ![i] = after_step(fn[i], "upload", TRUE)]
    /\ UNCHANGED <<clock, fn, pubsub_message, dummy_data, unique_id, localfs,
                   upload_table, filtered_table>>

\* upload_blob raises: no local file, the precondition failed, or the
\* service failed.
UploadFail(i) ==
    /\ pc[i] = "upload"
    /\ hist' = [hist EXCEPT ![i] = Append(@, Event("upload", FALSE, <<>>))]
    /\ pc' = [pc EXCEPT ![i] = after_step(fn[i], "upload", FALSE)]
    /\ UNCHANGED <<clock, fn, pubsub_message, dummy_data, unique_id, localfs, bucket,
                   upload_table, filtered_table>>

\* upload_bigquery succeeds: the object exists and the load job appended its
\* rows.
LoadOk(i) ==
    /\ pc[i] = "load"
    /\ UriObject(FileName(unique_id[i])) \in DOMAIN bucket
    /\ LET rows == ParseRows(bucket[UriObject(FileName(unique_id[i]))])
       IN  /\ upload_table' = upload_bigquery(upload_table, rows)
           /\ hist' = [hist EXCEPT ![i] = Append(@, Event("load", TRUE, rows))]
    /\ pc' = [pc EXCEPT ![i] = after_step(fn[i], "load", TRUE)]
    /\ UNCHANGED <<clock, fn, pubsub_message, dummy_data, unique_id, localfs, bucket,
                   filtered_table>>

\* upload_bigquery raises: the load job failed and appended nothing.
LoadFail(i) ==
    /\ pc[i] = "load"
    /\ hist' = [hist EXCEPT ![i] = Append(@, Event("load", FALSE, <<>>))]
    /\ pc' = [pc EXCEPT ![i] = after_step(fn[i], "load", FALSE)]
    /\ UNCHANGED <<clock, fn, pubsub_message, dummy_data, unique_id, localfs, bucket,
                   upload_table, filtered_table>>

\* data_transformation succeeds (cloud_run_main_latest only).
TransformOk(i) ==
    /\ pc[i] = "transform"
    /\ filtered_table' = data_transformation(upload_table)
    /\ hist' = [hist EXCEPT ![i] = Append(@, Event("transform", TRUE, <<>>))]
    /\ pc' = [pc EXCEPT ![i] = after_step(fn[i], "transform", TRUE)]
    /\ UNCHANGED <<clock, fn, pubsub_message, dummy_data, unique_id, localfs, bucket,
                   upload_table>>

TransformFail(i) ==
    /\ pc[i] = "transform"
    /\ hist' = [hist EXCEPT ![i] = Append(@, Event("transform", FALSE, <<>>))]
    /\ pc' = [pc EXCEPT ![i] = after_step(fn[i], "transform", FALSE)]
    /\ UNCHANGED <<clock, fn, pubsub_message, dummy_data, unique_id, localfs, bucket,
                   upload_table, filtered_table>>

\* ------------------------------------------------------------ specifications

InitSanitizer == InitSanitize /\ InfIdle /\ BldIdle /\ PipIdle
NextSanitize ==
    \/ SanitizeOnce /\ UNCHANGED <<infVars, bldVars, pipVars>>
    \/ SanitizeTwice /\ UNCHANGED <<infVars, bldVars, pipVars>>
SpecSanitize == InitSanitizer /\ [][NextSanitize]_vars

InitInferencer == SanIdle /\ InitInfer /\ BldIdle /\ PipIdle
NextInfer == Infer /\ UNCHANGED <<sanVars, bldVars, pipVars>>
SpecInfer == InitInferencer /\ [][NextInfer]_vars

InitBuilder == SanIdle /\ InfIdle /\ InitSchema /\ PipIdle
NextSchema ==
    \/ ReadCsvNotFound /\ UNCHANGED <<sanVars, infVars, pipVars>>
    \/ ReadCsvError /\ UNCHANGED <<sanVars, infVars, pipVars>>
    \/ ReadCsvOk /\ UNCHANGED <<sanVars, infVars, pipVars>>
    \/ LoopBody /\ UNCHANGED <<sanVars, infVars, pipVars>>
    \/ ReturnSchema /\ UNCHANGED <<sanVars, infVars, pipVars>>
SpecSchema == InitBuilder /\ [][NextSchema]_vars

Init == SanIdle /\ InfIdle /\ BldIdle /\ InitPipeline
Next ==
    \/ Tick /\ UNCHANGED <<sanVars, infVars, bldVars>>
    \/ \E i \in Invocations : Receive(i) /\ UNCHANGED <<sanVars, infVars, bldVars>>
    \/ \E i \in Invocations : WriteOk(i) /\ UNCHANGED <<sanVars, infVars, bldVars>>
    \/ \E i \in Invocations : WriteFail(i) /\ UNCHANGED <<sanVars, infVars, bldVars>>
    \/ \E i \in Invocations : UploadOk(i) /\ UNCHANGED <<sanVars, infVars, bldVars>>
    \/ \E i \in Invocations : UploadFail(i) /\ UNCHANGED <<sanVars, infVars, bldVars>>
    \/ \E i \in Invocations : LoadOk(i) /\ UNCHANGED <<sanVars, infVars, bldVars>>
    \/ \E i \in Invocations : LoadFail(i) /\ UNCHANGED <<sanVars, infVars, bldVars>>
    \/ \E i \in Invocations : TransformOk(i) /\ UNCHANGED <<sanVars, infVars, bldVars>>
    \/ \E i \in Invocations : TransformFail(i) /\ UNCHANGED <<sanVars, infVars, bldVars>>
Spec == Init /\ [][Next]_vars

\* ------------------------------------------------------------------- claims

Range(seq) == {seq[k] : k \in 1..Len(seq)}

\* ^[A-Za-z_][A-Za-z0-9_]*$
MatchesIdentifier(s) ==
    /\ s # <<>>
    /\ s[1] \in AsciiLetters \cup {"_"}
    /\ \A k \in 1..Len(s) : s[k] \in AsciiLetters \cup AsciiDigits \cup {"_"}

\* C1: sanitizing a sanitized header is defined and changes nothing:
\* sanitize(sanitize(x)) = sanitize(x) for every header x.
C1_SanitizeIdempotent ==
    spc = "twice" => (~twice.raised /\ twice.value = once.value)

\* C2: a sanitized name is empty or an identifier (a letter or '_', then
\* letters, digits and '_'), is at most 128 characters long, and does not start
\* with a digit when the header did.
C2_SanitizedNameValid ==
    spc \in {"once", "twice"} =>
        /\ ~once.raised
        /\ (once.value = <<>> \/ MatchesIdentifier(once.value))
        /\ Len(once.value) <= MaxNameLen
        /\ (name[1] \in AsciiDigits /\ once.value # <<>>
               => once.value[1] \notin AsciiDigits)

\* C3: the type follows the declared kind by priority (integer INT64, else
\* float FLOAT64, else boolean BOOL, else datetime TIMESTAMP) whatever the
\* values are, and the mode is NULLABLE for every input.
C3_TypeByDeclaredKind ==
    ipc = "done" =>
        /\ inferred[2] = "NULLABLE"
        /\ (pandas_dtype \in IntegerDTypes => inferred[1] = "INT64")
        /\ (pandas_dtype \in FloatDTypes \ IntegerDTypes => inferred[1] = "FLOAT64")
        /\ (pandas_dtype \in BoolDTypes \ (IntegerDTypes \cup FloatDTypes)
               => inferred[1] = "BOOL")
        /\ (pandas_dtype \in DatetimeDTypes
                   \ (IntegerDTypes \cup FloatDTypes \cup BoolDTypes)
               => inferred[1] = "TIMESTAMP")

C3_Witness ==
    /\ ipc = "done"
    /\ pandas_dtype = "int64"
    /\ column_series # <<>>
    /\ NaN \notin Range(column_series)
    /\ inferred = <<"INT64", "NULLABLE">>

\* The values of the column that are present and parse as a date-time (none
\* when the conversion raises).
ParsedValues ==
    IF conv_raises THEN {}
    ELSE {v \in Range(column_series) : v # NaN /\ ~to_datetime(v).nat}
ParsedTimes == {to_datetime(v).time : v \in ParsedValues}

C5_TimestampIffNotAllMidnight ==
    (ipc = "done" /\ pandas_dtype \in StringDTypes /\ ParsedValues # {}) =>
        /\ (inferred[1] = "TIMESTAMP" <=> ParsedTimes # {Midnight})
        /\ (inferred[1] = "DATE" <=> ParsedTimes = {Midnight})

\* C6: the builder never raises; it returns the empty list when the file is
\* missing or unreadable, and otherwise one descriptor per column, in column
\* order, with the sanitized name, mode NULLABLE and a description that holds
\* the original header: never a list shorter than the table.
C6_SchemaAllOrNothing ==
    /\ bpc # "raised"
    /\ bpc = "returned" =>
          IF csv.kind # "table"
          THEN returned = <<>>
          ELSE /\ Len(returned) = Len(csv.columns)
               /\ \A k \in 1..Len(returned) :
                     /\ returned[k].name
                            = sanitize_bigquery_column_name(csv.columns[k].column_name).value
                     /\ returned[k].mode = "NULLABLE"
                     /\ SubSeq(returned[k].description, 2,
                               Len(returned[k].description) - 1)
                            = csv.columns[k].column_name

C6_Witness ==
    /\ bpc = "returned"
    /\ csv.kind = "table"
    /\ Len(returned) = MaxCols
    /\ returned[1].name = <<>>
    /\ returned[2].name # csv.columns[2].column_name

\* C7: the names of a returned schema are pairwise distinct (the headers of
\* the table are).
C7_NamesUnique ==
    (bpc = "returned" /\ csv.kind = "table") =>
        \A j, k \in 1..Len(returned) : j # k => returned[j].name # returned[k].name

\* The steps of the try block of a function, in order.
StepsOf(f) ==
    IF f = "main" THEN <<"write", "upload", "load", "transform">>
    ELSE <<"write", "upload", "load">>

Ran(i, step) == \E k \in 1..Len(hist[i]) : hist[i][k].step = step
Succeeded(i, step) ==
    \E k \in 1..Len(hist[i]) : hist[i][k].step = step /\ hist[i][k].ok
EventOf(i, step) ==
    hist[i][CHOOSE k \in 1..Len(hist[i]) : hist[i][k].step = step]

RECURSIVE CountIn(_, _)
CountIn(seq, x) ==
    IF seq = <<>> THEN 0
    ELSE (IF seq[1] = x THEN 1 ELSE 0) + CountIn(Tail(seq), x)

\* C8: the load appends: the upload table holds one row for every load that
\* completed, each row as often as completed loads read it, whatever was in the
\* table before and whether or not the rows are equal.
C8_LoadAppends ==
    LET loaded == {i \in Invocations : Succeeded(i, "load")}
    IN  /\ Len(upload_table) = Cardinality(loaded)
        /\ \A i \in loaded :
              /\ Len(EventOf(i, "load").arg) = 1
              /\ CountIn(upload_table, EventOf(i, "load").arg[1])
                   = Cardinality({j \in loaded :
                                     EventOf(j, "load").arg = EventOf(i, "load").arg})

C8_Witness ==
    /\ \A i \in Invocations : Succeeded(i, "load")
    /\ \A i, j \in Invocations : i # j => unique_id[i] # unique_id[j]
    /\ Len(upload_table) = NumInvocations
    /\ \A k \in 1..Len(upload_table) : upload_table[k] = upload_table[1]

\* C9: the steps run in the order write, upload, load, transform, each only
\* after the ones before it succeeded; a failed step ends the handler without
\* an exception leaving it; a message other than "job_started" runs no step.
C9_StepsInOrder ==
    \A i \in Invocations :
        /\ Len(hist[i]) <= Len(StepsOf(fn[i]))
        /\ \A k \in 1..Len(hist[i]) :
              /\ hist[i][k].step = StepsOf(fn[i])[k]
              /\ (k < Len(hist[i]) => hist[i][k].ok)
        /\ (hist[i] # <<>> /\ ~hist[i][Len(hist[i])].ok => pc[i] = "done")
        /\ (hist[i] # <<>> => pc[i] # "raised")
        /\ (pubsub_message[i] # "job_started" => hist[i] = <<>>)
        /\ (pc[i] = "done" /\ pubsub_message[i] = "job_started"
               => \/ ~hist[i][Len(hist[i])].ok
                  \/ Len(hist[i]) = Len(StepsOf(fn[i])))

C9_Witness ==
    \E i, j \in Invocations :
        /\ pc[i] = "done"
        /\ Len(hist[i]) = 2
        /\ ~hist[i][2].ok
        /\ pc[j] = "done"
        /\ pubsub_message[j] = "job_finished"
        /\ fn[j] = "main"

\* C10: an object is never overwritten and is loaded at most once: of the
\* invocations that computed one name at most one upload succeeds, at most one
\* load is issued, and the object still holds what that upload wrote.
C10_ObjectWrittenOnce ==
    \A i \in Invocations :
        /\ Succeeded(i, "upload") =>
              /\ BlobName(FileName(unique_id[i])) \in DOMAIN bucket
              /\ bucket[BlobName(FileName(unique_id[i]))] = EventOf(i, "upload").arg
        /\ \A j \in Invocations \ {i} :
              unique_id[i] = unique_id[j] =>
                  /\ ~(Succeeded(i, "upload") /\ Succeeded(j, "upload"))
                  /\ ~(Ran(i, "load") /\ Ran(j, "load"))

C10_Witness ==
    \E i, j \in Invocations :
        /\ i # j
        /\ unique_id[i] = unique_id[j]
        /\ Succeeded(i, "load")
        /\ Ran(j, "upload")
        /\ ~Succeeded(j, "upload")
        /\ pc[j] = "done"

====
